---- MODULE Spec2Model ----
(***************************************************************************)
(* Model of managed-cache: the CacheManager (set/get/has/remove/           *)
(* removeContext/clear/setCachePolicy/wrap), the MemoryCache storage and   *)
(* the @cache method decorator.                                            *)
(*                                                                         *)
(* Time is the millisecond clock read by `new Date()`, counted in units of *)
(* 50 ms so that the test suite's max ages 100 and 150 become 2 and 3.     *)
(* Cached values are object references: every invocation of a wrapped      *)
(* target returns a fresh reference, so "the same reference" is equality.   *)
(***************************************************************************)
EXTENDS Integers, Sequences, FiniteSets, TLC

\* ------------------------------------------------------------------ bounds
\* Last instant of the clock.
MaxTime == 3
\* Operations of the manager in one run.
MaxSteps == 3

\* ------------------------------------------------------- JavaScript values
\* `undefined` where a string is expected (context, return values).
Undefined == "undefined"
\* `maxAge?: number` left out of an item or a policy lookup.
UndefinedAge == -1
\* `undefined` where a cached value is returned (get on a miss).
UndefinedValue == 0

\* A Promise is a reference too; the references of promises are the negative
\* integers, so that `value instanceof Promise` is a test on the value.
PromiseOf(ref) == 0 - ref
InstanceOfPromise(value) == value < 0

\* Keys are opaque: a string, an array of parts, or undefined (no key given).
StringKey(s) == [type |-> "string", s |-> s, parts |-> <<>>]
ArrayKey(parts) == [type |-> "array", s |-> "", parts |-> parts]
UndefinedKey == [type |-> "undefined", s |-> "", parts |-> <<>>]
\* policyKey may be a function of the parameters, named here by `f`.
FunctionKey(f) == [type |-> "function", s |-> f, parts |-> <<>>]

\* object-hash of an array: order-sensitive digest of its elements.
RECURSIVE hash(_)
hash(parts) ==
    IF parts = <<>> THEN "array:"
    ELSE hash(SubSeq(parts, 1, Len(parts) - 1)) \o "/" \o parts[Len(parts)]

\* CacheManager.getHash: a string key is its own hash.
\* object-hash of a function digests the function itself.
getHash(key) ==
    IF key.type = "string" THEN key.s
    ELSE IF key.type = "function" THEN "function:" \o key.s
    ELSE hash(key.parts)

\* ------------------------------------------------- test fixtures (test.ts)
testName == "foobar"
anotherName == "foobar1"
testContext == "world"
myContext == "my"
methodName == "getData"
TestClass == "TestClass"

\* First argument of a call, undefined when the call has none.
FirstArg(parameters) == IF Len(parameters) > 0 THEN parameters[1] ELSE Undefined

\* test.ts getMaxAge: 100 ms for testName, 150 ms otherwise.
getMaxAge(parameters) == IF FirstArg(parameters) = testName THEN 2 ELSE 3

\* A max-age function that disables caching for testName only.
zeroForTestName(parameters) == IF FirstArg(parameters) = testName THEN 0 ELSE 2

\* test.ts getContext: testContext for testName, undefined otherwise.
getContext(parameters) == IF FirstArg(parameters) = testName THEN testContext ELSE Undefined

\* Instances of TestClass: their identity and their `source` field.
Receiver(id, source) == [id |-> id, source |-> source]
\* `this` of a function that is called without a receiver.
UndefinedThis == Receiver(0, Undefined)
\* What reading a property of undefined throws.
TypeError == "TypeError"

\* test.ts getThisContext: this.source.
getThisContext(this) == IF this.id = UndefinedThis.id THEN TypeError ELSE this.source

\* ----------------------------------------------- ICachePolicy, ICacheOptions
\* maxAge: number | function; a duration, so never negative.
NumberAge(n) == [kind |-> "number", n |-> n, f |-> ""]
FunctionAge(f) == [kind |-> "function", n |-> 0, f |-> f]

\* Calling a maxAge function with the parameters of the write.
CallMaxAge(f, parameters) ==
    IF f = "getMaxAge" THEN getMaxAge(parameters) ELSE zeroForTestName(parameters)

\* keepRejectedPromise?: boolean, left out (falsy) unless the policy sets it.
Policy(maxAge, sliding) ==
    [defined |-> TRUE, maxAge |-> maxAge, sliding |-> sliding,
     keepRejectedPromise |-> FALSE]
KeepingPolicy(maxAge, sliding) ==
    [defined |-> TRUE, maxAge |-> maxAge, sliding |-> sliding,
     keepRejectedPromise |-> TRUE]
UndefinedPolicy ==
    [defined |-> FALSE, maxAge |-> NumberAge(0), sliding |-> FALSE,
     keepRejectedPromise |-> FALSE]

\* A policyKey function: the policy key [TestClass, first argument].
policyKeyByName(parameters) == ArrayKey(<<TestClass, FirstArg(parameters)>>)

\* Calling a policyKey function with the parameters of the write.
CallPolicyKey(f, parameters) == policyKeyByName(parameters)

\* context: string | function | undefined.
StringContext(c) == [kind |-> "string", v |-> c]
FunctionContext(f) == [kind |-> "function", v |-> f]
UndefinedContext == [kind |-> "undefined", v |-> ""]

\* Calling a context function with the parameters of the write.
\* A function of `this` is called as a plain function: `this` is undefined
\* (the modules are strict).
CallContext(f, parameters) ==
    IF f = "getThisContext" THEN getThisContext(UndefinedThis)
    ELSE getContext(parameters)

Options(context, policyKey, policy) ==
    [context |-> context, policyKey |-> policyKey, policy |-> policy]
\* `options` omitted: nothing in set() reads it.
UndefinedOptions == Options(UndefinedContext, UndefinedKey, UndefinedPolicy)

\* -------------------------------------------------------------------- state
VARIABLES
    storage,    \* MemoryCache._cache: hash -> ICacheItem
    contexts,   \* CacheManager._contexts: context -> set of hashes
    policies,   \* CacheManager._policies: hash -> ICachePolicy
    now,        \* the clock read by new Date()
    nextRef,    \* the next reference a target invocation returns
    promises,   \* Promise -> "pending" | "rejected" | "fulfilled"
    reactions,  \* catch handlers registered by set() that have not run
    steps,      \* operations of the manager performed so far
    last        \* the last operation: its inputs and what it returned

vars == <<storage, contexts, policies, now, nextRef, promises, reactions, steps, last>>

\* The empty object {}.
EmptyMap == [h \in {} |-> {}]

\* obj[k] = v
Put(obj, k, v) == [x \in (DOMAIN obj) \cup {k} |-> IF x = k THEN v ELSE obj[x]]

\* delete obj[k]
Delete(obj, k) == [x \in (DOMAIN obj) \ {k} |-> obj[x]]

\* ------------------------------------------------------------ MemoryCache
\* MemoryCache.get: the item, or undefined (here: membership of the hash).
StorageHas(cache, h) == h \in DOMAIN cache

\* MemoryCache.set
StorageSet(cache, h, cacheItem) == Put(cache, h, cacheItem)

\* MemoryCache.remove: a missing hash leaves the cache as it is.
StorageRemove(cache, h) == IF h \in DOMAIN cache THEN Delete(cache, h) ELSE cache

\* ----------------------------------------------------------- CacheManager
\* A string that an `if (s)` test accepts.
Truthy(s) == s # Undefined /\ s # ""

\* expired() without its `!cacheItem.maxAge` test: an item without a max age
\* is compared like any other.
expiredWithoutGuard(cacheItem, time) ==
    LET start == IF cacheItem.sliding THEN cacheItem.accessed ELSE cacheItem.created
        age == time - start
    IN  age > cacheItem.maxAge

\* expired() with `age >= maxAge`: an item of age maxAge is expired.
expiredAtMaxAge(cacheItem, time) ==
    IF cacheItem.maxAge = UndefinedAge \/ cacheItem.maxAge = 0 THEN FALSE
    ELSE LET start == IF cacheItem.sliding THEN cacheItem.accessed ELSE cacheItem.created
             age == time - start
         IN  age >= cacheItem.maxAge

\* expired() that measures every item's age from its last access.
expiredFromAccessed(cacheItem, time) ==
    IF cacheItem.maxAge = UndefinedAge \/ cacheItem.maxAge = 0 THEN FALSE
    ELSE LET age == time - cacheItem.accessed
         IN  age > cacheItem.maxAge

\* CacheManager.expired
expired(cacheItem, time) ==
    IF cacheItem.maxAge = UndefinedAge \/ cacheItem.maxAge = 0 THEN FALSE
    ELSE LET start == IF cacheItem.sliding THEN cacheItem.accessed ELSE cacheItem.created
             age == time - start
         IN  age > cacheItem.maxAge

\* getCacheItem() that returns a hit without `cacheItem.accessed = now`.
getCacheItemWithoutRefresh(cache, key, time) ==
    LET keyHash == getHash(key) IN
    IF ~StorageHas(cache, keyHash)
    THEN [storage |-> cache, found |-> FALSE, value |-> UndefinedValue]
    ELSE IF expired(cache[keyHash], time)
    THEN [storage |-> StorageRemove(cache, keyHash), found |-> FALSE,
          value |-> UndefinedValue]
    ELSE [storage |-> cache, found |-> TRUE, value |-> cache[keyHash].value]

\* getCacheItem() that reports an expired entry as a miss and leaves it stored.
getCacheItemKeepingExpired(cache, key, time) ==
    LET keyHash == getHash(key) IN
    IF ~StorageHas(cache, keyHash) \/ expired(cache[keyHash], time)
    THEN [storage |-> cache, found |-> FALSE, value |-> UndefinedValue]
    ELSE [storage |-> [cache EXCEPT ![keyHash].accessed = time], found |-> TRUE,
          value |-> cache[keyHash].value]

\* getCacheItem() whose hit restarts `created` along with `accessed`.
getCacheItemRefreshingCreated(cache, key, time) ==
    LET keyHash == getHash(key) IN
    IF ~StorageHas(cache, keyHash)
    THEN [storage |-> cache, found |-> FALSE, value |-> UndefinedValue]
    ELSE IF expired(cache[keyHash], time)
    THEN [storage |-> StorageRemove(cache, keyHash), found |-> FALSE,
          value |-> UndefinedValue]
    ELSE [storage |-> [cache EXCEPT ![keyHash].accessed = time,
                                    ![keyHash].created = time],
          found |-> TRUE, value |-> cache[keyHash].value]

\* CacheManager.getCacheItem: the storage it leaves and the item it returns.
getCacheItem(cache, key, time) ==
    LET keyHash == getHash(key) IN
    IF ~StorageHas(cache, keyHash)
    THEN [storage |-> cache, found |-> FALSE, value |-> UndefinedValue]
    ELSE IF expired(cache[keyHash], time)
    THEN [storage |-> StorageRemove(cache, keyHash), found |-> FALSE,
          value |-> UndefinedValue]
    ELSE [storage |-> [cache EXCEPT ![keyHash].accessed = time], found |-> TRUE,
          value |-> cache[keyHash].value]

\* setCacheItem() that stores the item and registers no context.
setCacheItemWithoutRegistry(cache, ctxs, cacheItem) ==
    [storage |-> StorageSet(cache, getHash(cacheItem.key), cacheItem),
     contexts |-> ctxs]

\* CacheManager.setCacheItem: the storage and the Context Registry it leaves.
setCacheItem(cache, ctxs, cacheItem) ==
    LET keyHash == getHash(cacheItem.key)
        context == cacheItem.context
    IN  [storage |-> StorageSet(cache, keyHash, cacheItem),
         contexts |->
            IF context # Undefined
            THEN LET hashes == IF context \in DOMAIN ctxs THEN ctxs[context] ELSE {}
                 IN  Put(ctxs, context, hashes \cup {keyHash})
            ELSE ctxs]

\* has() that asks the storage only and does not test expiry.
hasIgnoringExpiry(cache, key, time) == StorageHas(cache, getHash(key))

\* CacheManager.has
has(cache, key, time) ==
    LET keyHash == getHash(key) IN
    StorageHas(cache, keyHash) /\ ~expired(cache[keyHash], time)

\* Policy resolution that prefers the inline options.policy to the one
\* registered under options.policyKey.
ResolvePolicyInlineFirst(pols, options) ==
    LET policyKey == options.policyKey
        byKey == IF policyKey.type # "undefined" /\ getHash(policyKey) \in DOMAIN pols
                 THEN pols[getHash(policyKey)]
                 ELSE UndefinedPolicy
    IN  IF options.policy.defined THEN options.policy ELSE byKey

\* The policy set() resolves: the one registered under the hash of
\* options.policyKey, else the inline options.policy.
ResolvePolicy(pols, options) ==
    LET policyKey == options.policyKey
        byKey == IF policyKey.type # "undefined" /\ getHash(policyKey) \in DOMAIN pols
                 THEN pols[getHash(policyKey)]
                 ELSE UndefinedPolicy
    IN  IF byKey.defined THEN byKey ELSE options.policy

\* The context set() gives the item.
ResolveContext(options, parameters) ==
    LET context == options.context IN
    IF context.kind = "string" /\ Truthy(context.v) THEN context.v
    ELSE IF context.kind = "function" THEN CallContext(context.v, parameters)
    ELSE Undefined

\* The maxAge set() copies onto the item from a resolved policy.
ResolveMaxAge(policy, parameters) ==
    IF policy.maxAge.kind = "number" THEN policy.maxAge.n
    ELSE CallMaxAge(policy.maxAge.f, parameters)

\* The policyKey set() copies onto the item: a function is called with the
\* parameters of the write.
ResolvePolicyKey(options, parameters) ==
    IF options.policyKey.type = "function"
    THEN CallPolicyKey(options.policyKey.s, parameters)
    ELSE options.policyKey

\* set() returns before storing: the resolved policy's maxAge is the number 0.
SetReturnsEarly(policy) ==
    policy.defined /\ policy.maxAge.kind = "number" /\ policy.maxAge.n = 0

\* set() without `value.catch(() => this.remove(key))`.
setWithoutCatch(cache, ctxs, pols, key, value, options, parameters, time) ==
    LET policy == ResolvePolicy(pols, options)
        context == ResolveContext(options, parameters)
        cacheItem ==
            [key |-> key, value |-> value, created |-> time, accessed |-> time,
             context |-> context,
             policyKey |-> ResolvePolicyKey(options, parameters),
             maxAge |-> IF policy.defined THEN ResolveMaxAge(policy, parameters)
                        ELSE UndefinedAge,
             sliding |-> IF policy.defined THEN policy.sliding ELSE FALSE]
        keepRejectedPromise == policy.defined /\ policy.keepRejectedPromise
        stored == setCacheItem(cache, ctxs, cacheItem)
    IN  IF context = TypeError \/ SetReturnsEarly(policy)
        THEN [storage |-> cache, contexts |-> ctxs, catches |-> FALSE,
              threw |-> context = TypeError]
        ELSE [storage |-> stored.storage, contexts |-> stored.contexts,
              catches |-> FALSE, threw |-> FALSE]

\* CacheManager.set: the storage and the Context Registry it leaves, and
\* whether it registered `value.catch(() => this.remove(key))`.
set(cache, ctxs, pols, key, value, options, parameters, time) ==
    LET policy == ResolvePolicy(pols, options)
        context == ResolveContext(options, parameters)
        cacheItem ==
            [key |-> key, value |-> value, created |-> time, accessed |-> time,
             context |-> context,
             policyKey |-> ResolvePolicyKey(options, parameters),
             maxAge |-> IF policy.defined THEN ResolveMaxAge(policy, parameters)
                        ELSE UndefinedAge,
             sliding |-> IF policy.defined THEN policy.sliding ELSE FALSE]
        keepRejectedPromise == policy.defined /\ policy.keepRejectedPromise
        stored == setCacheItem(cache, ctxs, cacheItem)
    IN  IF context = TypeError \/ SetReturnsEarly(policy)
        THEN [storage |-> cache, contexts |-> ctxs, catches |-> FALSE,
              threw |-> context = TypeError]
        ELSE [storage |-> stored.storage, contexts |-> stored.contexts,
              catches |-> ~keepRejectedPromise /\ InstanceOfPromise(value),
              threw |-> FALSE]

\* remove() that deletes the context's set when it removes its last hash.
removeDeletingEmptySet(cache, ctxs, key) ==
    LET keyHash == getHash(key)
        existed == StorageHas(cache, keyHash)
        context == IF existed THEN cache[keyHash].context ELSE Undefined
    IN  [storage |-> StorageRemove(cache, keyHash),
         contexts |->
            IF existed /\ Truthy(context) /\ context \in DOMAIN ctxs
            THEN IF ctxs[context] \ {keyHash} = {}
                 THEN Delete(ctxs, context)
                 ELSE [ctxs EXCEPT ![context] = @ \ {keyHash}]
            ELSE ctxs,
         result |-> existed,
         threw |-> existed /\ Truthy(context) /\ context \notin DOMAIN ctxs]

\* remove() that reads the context of the removed item without the
\* `if (cacheItem)` test: it throws when the key has no entry.
removeWithoutItemTest(cache, ctxs, key) ==
    LET keyHash == getHash(key)
        existed == StorageHas(cache, keyHash)
        context == IF existed THEN cache[keyHash].context ELSE Undefined
    IN  [storage |-> StorageRemove(cache, keyHash),
         contexts |->
            IF existed /\ Truthy(context) /\ context \in DOMAIN ctxs
            THEN [ctxs EXCEPT ![context] = @ \ {keyHash}]
            ELSE ctxs,
         result |-> existed,
         threw |-> ~existed \/ (Truthy(context) /\ context \notin DOMAIN ctxs)]

\* CacheManager.remove: what it leaves, what it returns, whether it threw
\* (deleting from the set of a context the registry does not hold).
remove(cache, ctxs, key) ==
    LET keyHash == getHash(key)
        existed == StorageHas(cache, keyHash)
        context == IF existed THEN cache[keyHash].context ELSE Undefined
    IN  [storage |-> StorageRemove(cache, keyHash),
         contexts |->
            IF existed /\ Truthy(context) /\ context \in DOMAIN ctxs
            THEN [ctxs EXCEPT ![context] = @ \ {keyHash}]
            ELSE ctxs,
         result |-> existed,
         threw |-> existed /\ Truthy(context) /\ context \notin DOMAIN ctxs]

\* MemoryCache.remove of every hash of a set.
RECURSIVE StorageRemoveAll(_, _)
StorageRemoveAll(cache, hashes) ==
    IF hashes = {} THEN cache
    ELSE LET keyHash == CHOOSE h \in hashes : TRUE
         IN  StorageRemoveAll(StorageRemove(cache, keyHash), hashes \ {keyHash})

\* CacheManager.removeContext
removeContext(cache, ctxs, context) ==
    IF context \in DOMAIN ctxs
    THEN [storage |-> StorageRemoveAll(cache, ctxs[context]),
          contexts |-> Delete(ctxs, context)]
    ELSE [storage |-> cache, contexts |-> ctxs]

\* clear() without `this._contexts = {}`: the Context Registry survives.
clearKeepingContexts(cache, ctxs) == [storage |-> EmptyMap, contexts |-> ctxs]

\* CacheManager.clear
clear(cache, ctxs) == [storage |-> EmptyMap, contexts |-> EmptyMap]

\* CacheManager.setCachePolicy: the Policy Registry it leaves.
setCachePolicy(pols, policyKey, policy) == Put(pols, getHash(policyKey), policy)

\* What target.apply(this, parameters) does: return a value or throw.
Returns(value) == [threw |-> FALSE, value |-> value]
Throws == [threw |-> TRUE, value |-> UndefinedValue]

\* wrapped() without `self.set(key, value, cacheOptions, parameters)`.
wrappedWithoutSet(cache, ctxs, pols, outcome, cacheOptions, key, parameters, time) ==
    LET read == getCacheItem(cache, key, time) IN
    IF read.found
    THEN [storage |-> read.storage, contexts |-> ctxs, value |-> read.value,
          invoked |-> FALSE, threw |-> FALSE, catches |-> FALSE]
    ELSE [storage |-> read.storage, contexts |-> ctxs, value |-> outcome.value,
          invoked |-> TRUE, threw |-> outcome.threw, catches |-> FALSE]

\* wrapped() that returns a cached value only once it is no promise.
wrappedAwaitingSettled(cache, ctxs, pols, outcome, cacheOptions, key, parameters, time) ==
    LET read == getCacheItem(cache, key, time) IN
    IF read.found /\ ~InstanceOfPromise(read.value)
    THEN [storage |-> read.storage, contexts |-> ctxs, value |-> read.value,
          invoked |-> FALSE, threw |-> FALSE, catches |-> FALSE]
    ELSE IF outcome.threw
    THEN [storage |-> read.storage, contexts |-> ctxs, value |-> UndefinedValue,
          invoked |-> TRUE, threw |-> TRUE, catches |-> FALSE]
    ELSE LET written == set(read.storage, ctxs, pols, key, outcome.value,
                            cacheOptions, parameters, time)
         IN  [storage |-> written.storage, contexts |-> written.contexts,
              value |-> IF written.threw THEN UndefinedValue ELSE outcome.value,
              invoked |-> TRUE, threw |-> written.threw,
              catches |-> written.catches]

\* wrapped() that catches the target's exception and caches undefined.
wrappedCachingFailure(cache, ctxs, pols, outcome, cacheOptions, key, parameters, time) ==
    LET read == getCacheItem(cache, key, time) IN
    IF read.found
    THEN [storage |-> read.storage, contexts |-> ctxs, value |-> read.value,
          invoked |-> FALSE, threw |-> FALSE, catches |-> FALSE]
    ELSE LET written == set(read.storage, ctxs, pols, key, outcome.value,
                            cacheOptions, parameters, time)
         IN  [storage |-> written.storage, contexts |-> written.contexts,
              value |-> outcome.value, invoked |-> TRUE, threw |-> outcome.threw,
              catches |-> written.catches]

\* The function wrap() returns, called with `parameters` under `key`:
\* what it leaves, the value it returns, whether it invoked the target,
\* whose invocation would end as `outcome`, whether the target's exception
\* left it and whether set() registered a catch handler on the value.
wrapped(cache, ctxs, pols, outcome, cacheOptions, key, parameters, time) ==
    LET read == getCacheItem(cache, key, time) IN
    IF read.found
    THEN [storage |-> read.storage, contexts |-> ctxs, value |-> read.value,
          invoked |-> FALSE, threw |-> FALSE, catches |-> FALSE]
    ELSE IF outcome.threw
    THEN [storage |-> read.storage, contexts |-> ctxs, value |-> UndefinedValue,
          invoked |-> TRUE, threw |-> TRUE, catches |-> FALSE]
    ELSE LET written == set(read.storage, ctxs, pols, key, outcome.value,
                            cacheOptions, parameters, time)
         IN  [storage |-> written.storage, contexts |-> written.contexts,
              value |-> IF written.threw THEN UndefinedValue ELSE outcome.value,
              invoked |-> TRUE, threw |-> written.threw,
              catches |-> written.catches]

\* ------------------------------------------------------ @cache decorator
\* cacheDecorator: the default policy key [constructor, propertyName].
DefaultPolicyKey(constructor, propertyName) == ArrayKey(<<constructor, propertyName>>)

\* cacheDecorator: Object.assign({ policyKey }, options).
DecoratorOptions(constructor, propertyName, options) ==
    IF options.policyKey.type = "undefined"
    THEN [options EXCEPT !.policyKey = DefaultPolicyKey(constructor, propertyName)]
    ELSE options

\* cacheDecorator: the key [constructor, propertyName, ...parameters].
DecoratorKey(constructor, propertyName, parameters) ==
    ArrayKey(<<constructor, propertyName>> \o parameters)

\* test.ts customCache = cache({ context: getContext, policy: { maxAge: getMaxAge } })
customCache ==
    Options(FunctionContext("getContext"), UndefinedKey,
            Policy(FunctionAge("getMaxAge"), FALSE))

\* ------------------------------------------------------------------ inputs
\* Direct values handed to set(); the references targets return count from 1.
Values == {101}

\* Keys used with the manager directly: a plain string and the keys of the
\* decorated TestClass.getData.
Keys == {StringKey("k1"), DecoratorKey(TestClass, methodName, <<testName>>)}

\* Names the decorated method is called with; its second argument (count)
\* is the same in every call and is left out of parameters and keys.
Names == {testName, anotherName}

Contexts == {testContext, myContext}

PolicyKeys == {DefaultPolicyKey(TestClass, methodName)}

\* Policies registered with setCachePolicy: caching disabled, sliding 1, fixed 2.
InputPolicies ==
    {Policy(NumberAge(0), FALSE), Policy(NumberAge(1), TRUE),
     Policy(NumberAge(2), FALSE)}

\* Options of a direct set(): none, a context, a context with an inline
\* policy (caching disabled, sliding 1), a maxAge function, and the
\* decorator's policy key with an inline fixed policy.
InputOptions ==
    {UndefinedOptions,
     Options(StringContext(testContext), UndefinedKey, UndefinedPolicy),
     Options(StringContext(myContext), UndefinedKey, UndefinedPolicy),
     Options(StringContext(testContext), UndefinedKey, Policy(NumberAge(0), FALSE)),
     Options(StringContext(testContext), UndefinedKey, Policy(NumberAge(1), TRUE)),
     Options(UndefinedContext, UndefinedKey,
             Policy(FunctionAge("zeroForTestName"), FALSE)),
     Options(UndefinedContext, DefaultPolicyKey(TestClass, methodName),
             Policy(NumberAge(2), FALSE))}

\* A direct set() passes no parameters, or (testName) where an option is a
\* function of them.
InputWrites ==
    {<<options, <<>>>> : options \in InputOptions} \cup
    {<<options, <<testName>>>> :
        options \in {o \in InputOptions : o.policy.maxAge.kind = "function"}}

\* ----------------------------------------------------------------- actions
Last(op, key, value, options, parameters, context, found, invoked, threw) ==
    [op |-> op, key |-> key, value |-> value, options |-> options,
     parameters |-> parameters, context |-> context, found |-> found,
     invoked |-> invoked, threw |-> threw]

\* One more operation of the manager, while the run may go on.
Step == steps < MaxSteps /\ steps' = steps + 1

\* value.catch(handler) in set(): the handlers waiting once it is registered.
Catch(handlers, catches, value, key) ==
    IF catches THEN handlers \cup {[promise |-> value, key |-> key]} ELSE handlers

Init ==
    /\ storage = EmptyMap
    /\ contexts = EmptyMap
    /\ policies = EmptyMap
    /\ now = 0
    /\ nextRef = 1
    /\ promises = EmptyMap
    /\ reactions = {}
    /\ steps = 0
    /\ last = Last("init", UndefinedKey, UndefinedValue, UndefinedOptions, <<>>,
                   Undefined, FALSE, FALSE, FALSE)

\* cacheManager.set(key, value, options, parameters)
Set(key, value, options, parameters) ==
    LET written == set(storage, contexts, policies, key, value, options,
                       parameters, now)
    IN  /\ Step
        /\ storage' = written.storage
        /\ contexts' = written.contexts
        /\ reactions' = Catch(reactions, written.catches, value, key)
        /\ last' = Last("set", key, value, options, parameters, Undefined,
                        FALSE, FALSE, written.threw)
        /\ UNCHANGED <<policies, now, nextRef, promises>>

\* cacheManager.get(key)
Get(key) ==
    LET read == getCacheItem(storage, key, now)
    IN  /\ Step
        /\ storage' = read.storage
        /\ last' = Last("get", key, read.value, UndefinedOptions, <<>>, Undefined,
                        read.found, FALSE, FALSE)
        /\ UNCHANGED <<contexts, policies, now, nextRef, promises, reactions>>

\* has() that goes through the read path: it refreshes `accessed` on a hit
\* and evicts an expired entry.
HasThroughReadPath(key) ==
    LET read == getCacheItem(storage, key, now)
    IN  /\ Step
        /\ storage' = read.storage
        /\ last' = Last("has", key, UndefinedValue, UndefinedOptions, <<>>, Undefined,
                        read.found, FALSE, FALSE)
        /\ UNCHANGED <<contexts, policies, now, nextRef, promises, reactions>>

\* cacheManager.has(key)
Has(key) ==
    /\ Step
    /\ last' = Last("has", key, UndefinedValue, UndefinedOptions, <<>>, Undefined,
                    has(storage, key, now), FALSE, FALSE)
    /\ UNCHANGED <<storage, contexts, policies, now, nextRef, promises, reactions>>

\* remove() that reports whether the entry it removed was unexpired.
RemoveReportingUnexpired(key) ==
    LET removed == remove(storage, contexts, key)
    IN  /\ Step
        /\ storage' = removed.storage
        /\ contexts' = removed.contexts
        /\ last' = Last("remove", key, UndefinedValue, UndefinedOptions, <<>>,
                        Undefined, has(storage, key, now), FALSE, removed.threw)
        /\ UNCHANGED <<policies, now, nextRef, promises, reactions>>

\* cacheManager.remove(key)
Remove(key) ==
    LET removed == remove(storage, contexts, key)
    IN  /\ Step
        /\ storage' = removed.storage
        /\ contexts' = removed.contexts
        /\ last' = Last("remove", key, UndefinedValue, UndefinedOptions, <<>>,
                        Undefined, removed.result, FALSE, removed.threw)
        /\ UNCHANGED <<policies, now, nextRef, promises, reactions>>

\* cacheManager.removeContext(context)
RemoveContext(context) ==
    LET removed == removeContext(storage, contexts, context)
    IN  /\ Step
        /\ storage' = removed.storage
        /\ contexts' = removed.contexts
        /\ last' = Last("removeContext", UndefinedKey, UndefinedValue,
                        UndefinedOptions, <<>>, context, FALSE, FALSE, FALSE)
        /\ UNCHANGED <<policies, now, nextRef, promises, reactions>>

\* cacheManager.clear()
Clear ==
    LET cleared == clear(storage, contexts)
    IN  /\ Step
        /\ storage' = cleared.storage
        /\ contexts' = cleared.contexts
        /\ last' = Last("clear", UndefinedKey, UndefinedValue, UndefinedOptions,
                        <<>>, Undefined, FALSE, FALSE, FALSE)
        /\ UNCHANGED <<policies, now, nextRef, promises, reactions>>

\* setCachePolicy() that also re-applies the policy to the entries already
\* cached under the policy key.
SetCachePolicyRetroactive(policyKey, policy) ==
    /\ Step
    /\ policies' = setCachePolicy(policies, policyKey, policy)
    /\ storage' =
          [h \in DOMAIN storage |->
              IF storage[h].policyKey = policyKey
              THEN [storage[h] EXCEPT
                      !.maxAge = ResolveMaxAge(policy, <<>>),
                      !.sliding = policy.sliding]
              ELSE storage[h]]
    /\ last' = Last("setCachePolicy", policyKey, UndefinedValue,
                    Options(UndefinedContext, policyKey, policy), <<>>, Undefined,
                    FALSE, FALSE, FALSE)
    /\ UNCHANGED <<contexts, now, nextRef, promises, reactions>>

\* cacheManager.setCachePolicy(policyKey, policy)
SetCachePolicy(policyKey, policy) ==
    /\ Step
    /\ policies' = setCachePolicy(policies, policyKey, policy)
    /\ last' = Last("setCachePolicy", policyKey, UndefinedValue,
                    Options(UndefinedContext, policyKey, policy), <<>>, Undefined,
                    FALSE, FALSE, FALSE)
    /\ UNCHANGED <<storage, contexts, now, nextRef, promises, reactions>>

\* testObject.getData(name): the method decorated with @customCache.
Call(parameters) ==
    LET key == DecoratorKey(TestClass, methodName, parameters)
        cacheOptions == DecoratorOptions(TestClass, methodName, customCache)
        called == wrapped(storage, contexts, policies, Returns(nextRef),
                          cacheOptions, key, parameters, now)
    IN  /\ Step
        /\ storage' = called.storage
        /\ contexts' = called.contexts
        /\ nextRef' = IF called.invoked THEN nextRef + 1 ELSE nextRef
        /\ reactions' = Catch(reactions, called.catches, called.value, key)
        /\ last' = Last("call", key, called.value, cacheOptions, parameters,
                        Undefined, ~called.invoked, called.invoked, called.threw)
        /\ UNCHANGED <<policies, now, promises>>

\* Time passes (await wait(...)).
Tick ==
    /\ now < MaxTime
    /\ now' = now + 1
    /\ last' = Last("tick", UndefinedKey, UndefinedValue, UndefinedOptions, <<>>,
                    Undefined, FALSE, FALSE, FALSE)
    /\ UNCHANGED <<storage, contexts, policies, nextRef, promises, reactions, steps>>

Next ==
    \/ \E key \in Keys, value \in Values, write \in InputWrites :
          Set(key, value, write[1], write[2])
    \/ \E key \in Keys : Get(key)
    \/ \E key \in Keys : Has(key)
    \/ \E key \in Keys : Remove(key)
    \/ \E context \in Contexts : RemoveContext(context)
    \/ Clear
    \/ \E policyKey \in PolicyKeys, policy \in InputPolicies :
          SetCachePolicy(policyKey, policy)
    \/ \E name \in Names : Call(<<name>>)
    \/ Tick

Spec == Init /\ [][Next]_vars

\* ------------------------------------------------ expired() on any item
\* Largest maxAge of the items expired() is applied to.
MaxAge == 3

\* setCacheItem() accepts any item: one item under the key "k1", its fields
\* and the clock drawn freely.
InitExpired ==
    /\ \E maxAge \in {UndefinedAge} \cup (0 .. MaxAge), sliding \in BOOLEAN,
          created \in 0 .. MaxTime, accessed \in 0 .. MaxTime :
          storage = setCacheItem(EmptyMap, EmptyMap,
                        [key |-> StringKey("k1"), value |-> 101,
                         created |-> created, accessed |-> accessed,
                         context |-> Undefined, policyKey |-> UndefinedKey,
                         maxAge |-> maxAge, sliding |-> sliding]).storage
    /\ contexts = EmptyMap
    /\ policies = EmptyMap
    /\ now \in 0 .. MaxTime
    /\ nextRef = 1
    /\ promises = EmptyMap
    /\ reactions = {}
    /\ steps = 0
    /\ last = Last("init", UndefinedKey, UndefinedValue, UndefinedOptions, <<>>,
                   Undefined, FALSE, FALSE, FALSE)

NextExpired == Has(StringKey("k1"))

SpecExpired == InitExpired /\ [][NextExpired]_vars

\* ------------------------------------- wrapped functions and the README
\* wrap() without getKey: the key [target.name, parameters].
WrapKeyWithoutParameters(name, parameters) == ArrayKey(<<name>>)
WrapKey(name, parameters) == ArrayKey(<<name, hash(parameters)>>)

\* README "Rejected promises": wrap(getData, { keepRejectedPromise: true }),
\* the flag given in the options object itself.
ReadmeKeepOptions ==
    [context |-> UndefinedContext, policyKey |-> UndefinedKey,
     policy |-> UndefinedPolicy, keepRejectedPromise |-> TRUE]

\* The max age M of the README's @cache({ maxAge: M }), in clock units.
ReadmeMaxAge == 1

\* README "Method decorator": @cache({ maxAge: M }), the max age given in
\* the options object itself.
ReadmeMaxAgeOptions ==
    [context |-> UndefinedContext, policyKey |-> UndefinedKey,
     policy |-> UndefinedPolicy, maxAge |-> ReadmeMaxAge]
MyClass == "MyClass"

\* Options the function getData is wrapped with: none, an inline policy that
\* keeps rejected promises, and one with a context that does not.
WrapOptions ==
    {UndefinedOptions,
     Options(UndefinedContext, UndefinedKey, KeepingPolicy(NumberAge(2), FALSE)),
     Options(StringContext(testContext), UndefinedKey, Policy(NumberAge(2), FALSE))}

\* What an invocation of the target does: return an object, return a promise
\* that is still pending, return a promise already rejected, or throw.
Outcomes == {"value", "pending", "rejected", "throw"}

\* The outcome of the invocation that would return the reference `ref`.
Outcome(kind, ref) ==
    IF kind = "throw" THEN Throws
    ELSE IF kind = "value" THEN Returns(ref)
    ELSE Returns(PromiseOf(ref))

\* Keys of the wrapped getData.
WrapKeys == {WrapKey(methodName, <<testName>>)}

\* cached(...parameters), cached = cacheManager.wrap(getData, options)
CallWrapped(options, parameters, kind) ==
    LET key == WrapKey(methodName, parameters)
        called == wrapped(storage, contexts, policies, Outcome(kind, nextRef),
                          options, key, parameters, now)
        returned == called.invoked /\ ~called.threw
    IN  /\ Step
        /\ storage' = called.storage
        /\ contexts' = called.contexts
        /\ nextRef' = IF returned THEN nextRef + 1 ELSE nextRef
        /\ promises' =
              IF returned /\ InstanceOfPromise(called.value)
              THEN Put(promises, called.value, kind)
              ELSE promises
        /\ reactions' = Catch(reactions, called.catches, called.value, key)
        /\ last' = Last("wrapped", key, called.value, options, parameters,
                        Undefined, ~called.invoked, called.invoked, called.threw)
        /\ UNCHANGED <<policies, now>>

\* obj.getData(name) of the README's MyClass, decorated @cache({ maxAge: M }).
CallDecorated(parameters) ==
    LET key == DecoratorKey(MyClass, methodName, parameters)
        cacheOptions == DecoratorOptions(MyClass, methodName, ReadmeMaxAgeOptions)
        called == wrapped(storage, contexts, policies, Returns(nextRef),
                          cacheOptions, key, parameters, now)
    IN  /\ Step
        /\ storage' = called.storage
        /\ contexts' = called.contexts
        /\ nextRef' = IF called.invoked THEN nextRef + 1 ELSE nextRef
        /\ reactions' = Catch(reactions, called.catches, called.value, key)
        /\ last' = Last("decorated", key, called.value, cacheOptions, parameters,
                        Undefined, ~called.invoked, called.invoked, called.threw)
        /\ UNCHANGED <<policies, now, promises>>

\* A pending promise is rejected; its catch handlers become due.
Reject(promise) ==
    /\ promise \in DOMAIN promises
    /\ promises[promise] = "pending"
    /\ promises' = [promises EXCEPT ![promise] = "rejected"]
    /\ last' = Last("reject", UndefinedKey, promise, UndefinedOptions, <<>>,
                    Undefined, FALSE, FALSE, FALSE)
    /\ UNCHANGED <<storage, contexts, policies, now, nextRef, reactions, steps>>

\* A pending promise is fulfilled; its catch handlers never run.
Resolve(promise) ==
    /\ promise \in DOMAIN promises
    /\ promises[promise] = "pending"
    /\ promises' = [promises EXCEPT ![promise] = "fulfilled"]
    /\ reactions' = {r \in reactions : r.promise # promise}
    /\ last' = Last("resolve", UndefinedKey, promise, UndefinedOptions, <<>>,
                    Undefined, FALSE, FALSE, FALSE)
    /\ UNCHANGED <<storage, contexts, policies, now, nextRef, steps>>

\* The handler set() registered on a promise that was rejected runs:
\* () => this.remove(key).
RunReaction(reaction) ==
    LET removed == remove(storage, contexts, reaction.key)
    IN  /\ reaction \in reactions
        /\ promises[reaction.promise] = "rejected"
        /\ storage' = removed.storage
        /\ contexts' = removed.contexts
        /\ reactions' = reactions \ {reaction}
        /\ last' = Last("reaction", reaction.key, reaction.promise,
                        UndefinedOptions, <<>>, Undefined, removed.result, FALSE,
                        removed.threw)
        /\ UNCHANGED <<policies, now, nextRef, promises, steps>>

NextWrap ==
    \/ \E options \in WrapOptions, kind \in Outcomes :
          CallWrapped(options, <<testName>>, kind)
    \/ CallWrapped(UndefinedOptions, <<anotherName>>, "value")
    \/ \E promise \in DOMAIN promises : Reject(promise)
    \/ \E promise \in DOMAIN promises : Resolve(promise)
    \/ \E reaction \in reactions : RunReaction(reaction)
    \/ \E key \in WrapKeys : Get(key)
    \/ \E key \in WrapKeys : Has(key)
    \/ \E key \in WrapKeys : Remove(key)
    \/ Tick

SpecWrap == Init /\ [][NextWrap]_vars

\* The README's two examples on their own: the method decorated with
\* @cache({ maxAge: M }) and getData, which returns a rejected promise,
\* wrapped with { keepRejectedPromise: true }.
NextReadme ==
    \/ CallWrapped(ReadmeKeepOptions, <<testName>>, "rejected")
    \/ CallDecorated(<<testName>>)
    \/ \E reaction \in reactions : RunReaction(reaction)
    \/ Has(WrapKey(methodName, <<testName>>))
    \/ Has(DecoratorKey(MyClass, methodName, <<testName>>))
    \/ Tick

SpecReadme == Init /\ [][NextReadme]_vars

\* ------------------------------------------- decorated methods, receivers
\* test.ts thisContextCache = cache({ context: getThisContext })
thisContextCache ==
    Options(FunctionContext("getThisContext"), UndefinedKey, UndefinedPolicy)

\* cache({ extraKeyParts: getExtraKeyParts }): an option of the README and
\* of the newer tests.
extraKeyPartsCache ==
    [context |-> UndefinedContext, policyKey |-> UndefinedKey,
     policy |-> UndefinedPolicy, extraKeyParts |-> "getExtraKeyParts"]

\* The decorated methods of TestClass and the options of their decorators.
Methods == {"getData", "getData2", "useExtraKeyParts"}
MethodOptions(propertyName) ==
    IF propertyName = "getData" THEN customCache
    ELSE IF propertyName = "getData2" THEN thisContextCache
    ELSE extraKeyPartsCache

\* testObject and another = new TestClass(), myObject = new TestClass("my").
testObject == Receiver(1, "unknown")
another == Receiver(2, "unknown")
myObject == Receiver(3, myContext)
Receivers == {testObject, another, myObject}

\* The last operation, a method call, with the instance it was made on.
LastOn(receiver, op, key, value, options, parameters, found, invoked, threw) ==
    [receiver |-> receiver, op |-> op, key |-> key, value |-> value,
     options |-> options, parameters |-> parameters, context |-> Undefined,
     found |-> found, invoked |-> invoked, threw |-> threw]

\* A decorated method whose getKey puts the instance into the key.
CallMethodKeyedByReceiver(receiver, propertyName, parameters) ==
    LET key == DecoratorKey(TestClass, propertyName, <<receiver.source>> \o parameters)
        cacheOptions == DecoratorOptions(TestClass, propertyName,
                                         MethodOptions(propertyName))
        called == wrapped(storage, contexts, policies, Returns(nextRef),
                          cacheOptions, key, parameters, now)
    IN  /\ Step
        /\ storage' = called.storage
        /\ contexts' = called.contexts
        /\ nextRef' = IF called.invoked THEN nextRef + 1 ELSE nextRef
        /\ reactions' = Catch(reactions, called.catches, called.value, key)
        /\ last' = LastOn(receiver, propertyName, key, called.value, cacheOptions,
                          parameters, ~called.invoked, called.invoked, called.threw)
        /\ UNCHANGED <<policies, now, promises>>

\* receiver[propertyName](...parameters) for a decorated method of TestClass:
\* wrap(method, cacheOptions, parameters => [constructor, propertyName,
\* ...parameters]), the target applied to the receiver.
CallMethod(receiver, propertyName, parameters) ==
    LET key == DecoratorKey(TestClass, propertyName, parameters)
        cacheOptions == DecoratorOptions(TestClass, propertyName,
                                         MethodOptions(propertyName))
        called == wrapped(storage, contexts, policies, Returns(nextRef),
                          cacheOptions, key, parameters, now)
    IN  /\ Step
        /\ storage' = called.storage
        /\ contexts' = called.contexts
        /\ nextRef' = IF called.invoked THEN nextRef + 1 ELSE nextRef
        /\ reactions' = Catch(reactions, called.catches, called.value, key)
        /\ last' = LastOn(receiver, propertyName, key, called.value, cacheOptions,
                          parameters, ~called.invoked, called.invoked, called.threw)
        /\ UNCHANGED <<policies, now, promises>>

NextDecorator ==
    \/ \E receiver \in Receivers, propertyName \in Methods, name \in Names :
          CallMethod(receiver, propertyName, <<name>>)
    \/ \E context \in Contexts : RemoveContext(context)
    \/ Tick

SpecDecorator == Init /\ [][NextDecorator]_vars

\* ------------------------------------------------------------------ claims
\* The entry a read or a write of the last operation's key is about.
LastHash == getHash(last.key)

\* C1: set(K, V, options, parameters) followed at once by get(K) returns V
\* itself, unless the policy resolved for the write sets maxAge to 0.
C1_SetThenGet ==
    [][(/\ last.op = "set"
        /\ last'.op = "get"
        /\ last'.key = last.key
        /\ LET policy == ResolvePolicy(policies, last.options)
           IN  ~(policy.defined /\ policy.maxAge = NumberAge(0)))
       => (last'.found /\ last'.value = last.value)]_vars

\* C1 witness: the second of two operations is a get that returns the value
\* just set under a policy with a max age, no time having passed.
C1_Witness ==
    /\ steps = 2
    /\ last.op = "get"
    /\ last.found
    /\ last.value \in Values
    /\ storage[LastHash].created = now
    /\ storage[LastHash].maxAge = 1

\* The maxAge a write's resolved policy evaluates to, UndefinedAge without one.
EvaluatedMaxAge(pols, options, parameters) ==
    LET policy == ResolvePolicy(pols, options)
    IN  IF policy.defined
        THEN IF policy.maxAge.kind = "number" THEN policy.maxAge.n
             ELSE CallMaxAge(policy.maxAge.f, parameters)
        ELSE UndefinedAge

\* C2: a set() whose resolved policy's maxAge evaluates to 0, as a number or
\* as a function of the parameters, changes neither storage nor the Context
\* Registry, and a key that was not cached is not cached afterwards.
C2_ZeroMaxAgeIsNoOp ==
    [][(/\ last'.op = "set"
        /\ steps' = steps + 1
        /\ EvaluatedMaxAge(policies, last'.options, last'.parameters) = 0)
       => (/\ storage' = storage
           /\ contexts' = contexts
           /\ ~has(storage, last'.key, now) => ~has(storage', last'.key, now))]_vars

\* C3: expired is false without a max age or with max age 0; otherwise it is
\* true exactly when now - start > maxAge, start being accessed for a
\* sliding item and created for a fixed one.
C3_Expired ==
    (last.op = "has" /\ LastHash \in DOMAIN storage) =>
        LET item == storage[LastHash]
            start == IF item.sliding THEN item.accessed ELSE item.created
        IN  last.found = ~(item.maxAge > 0 /\ now - start > item.maxAge)

\* C3 witness: has() found a sliding item of age exactly maxAge unexpired
\* although it was created more than maxAge ago.
C3_Witness ==
    /\ last.op = "has"
    /\ last.found
    /\ LastHash \in DOMAIN storage
    /\ storage[LastHash].sliding
    /\ storage[LastHash].maxAge = 2
    /\ now - storage[LastHash].accessed = 2
    /\ now - storage[LastHash].created = 3

\* A step that reads the cache under a key: get(key) or a wrapped call.
ReadStep == last'.op \in {"get", "call"} /\ steps' = steps + 1

\* The hash a step's operation is about.
StepHash == getHash(last'.key)

\* The read of this step hit: it returned the stored value, no target ran.
ReadHit ==
    /\ last'.found
    /\ ~last'.invoked
    /\ last'.value = storage[StepHash].value
    /\ StepHash \in DOMAIN storage'
    /\ storage'[StepHash].created = storage[StepHash].created

\* The read of this step missed: get returned undefined and the entry is
\* gone; a wrapped call ran its target and returned the new reference.
ReadMiss ==
    /\ ~last'.found
    /\ last'.op = "get" => (last'.value = UndefinedValue /\ StepHash \notin DOMAIN storage')
    /\ last'.op = "call" => (last'.invoked /\ last'.value # storage[StepHash].value)

\* C4: a read of an entry written with maxAge M > 0 and sliding false hits
\* when the time since creation is at most M and misses when it is more,
\* whatever reads came in between.
C4_FixedPolicy ==
    [][(/\ ReadStep
        /\ StepHash \in DOMAIN storage
        /\ storage[StepHash].maxAge > 0
        /\ ~storage[StepHash].sliding)
       => IF now - storage[StepHash].created <= storage[StepHash].maxAge
          THEN ReadHit ELSE ReadMiss]_vars

\* C4 witness: the third operation is a wrapped call that hits a fixed entry
\* at age exactly maxAge; the only target invocation was the first call.
C4_Witness ==
    /\ steps = 3
    /\ nextRef = 2
    /\ last.op = "call"
    /\ last.found
    /\ last.value = 1
    /\ ~storage[LastHash].sliding
    /\ storage[LastHash].maxAge = 2
    /\ now - storage[LastHash].created = 2

\* C5: a read of an entry written with maxAge M > 0 and sliding true hits
\* when the time since the last successful access is at most M, and the hit
\* restarts the age clock; it misses when that time is more than M.
C5_SlidingPolicy ==
    [][(/\ ReadStep
        /\ StepHash \in DOMAIN storage
        /\ storage[StepHash].maxAge > 0
        /\ storage[StepHash].sliding)
       => IF now - storage[StepHash].accessed <= storage[StepHash].maxAge
          THEN ReadHit /\ storage'[StepHash].accessed = now
          ELSE ReadMiss]_vars

\* C5 witness: a read hits a sliding entry created more than maxAge ago.
C5_Witness ==
    /\ last.op \in {"get", "call"}
    /\ last.found
    /\ storage[LastHash].sliding
    /\ storage[LastHash].maxAge = 1
    /\ storage[LastHash].accessed = now
    /\ now - storage[LastHash].created = 2

\* C6: removeContext(C) removes every stored entry tagged with C and no
\* entry tagged with another context or with none.
C6_RemoveContextExact ==
    [][(last'.op = "removeContext" /\ steps' = steps + 1)
       => \A h \in DOMAIN storage :
             IF storage[h].context = last'.context
             THEN h \notin DOMAIN storage'
             ELSE h \in DOMAIN storage' /\ storage'[h] = storage[h]]_vars

\* C7: an entry that leaves storage, by whatever path, is listed under no
\* context afterwards.
C7_RemovalUnregisters ==
    [][\A h \in DOMAIN storage :
          h \notin DOMAIN storage' =>
              \A c \in DOMAIN contexts' : h \notin contexts'[c]]_vars

\* C8: each hash is listed under at most one context, and that context is
\* the stored entry's own.
C8_AtMostOneContext ==
    \A c \in DOMAIN contexts : \A h \in contexts[c] :
        /\ \A d \in DOMAIN contexts : h \in contexts[d] => d = c
        /\ h \in DOMAIN storage
        /\ storage[h].context = c

\* A step that writes an entry: set(), or a wrapped call that missed.
WriteStep ==
    /\ steps' = steps + 1
    /\ last'.op = "set" \/ (last'.op = "call" /\ last'.invoked)

\* C9: a write takes maxAge and sliding from the policy registered under the
\* hash of options.policyKey when there is one, ignoring options.policy, and
\* from the inline options.policy otherwise.
C9_PolicyResolution ==
    [][WriteStep =>
        LET options == last'.options
            keyHash == getHash(options.policyKey)
            registered == options.policyKey.type # "undefined"
                          /\ keyHash \in DOMAIN policies
            policy == IF registered THEN policies[keyHash] ELSE options.policy
        IN  (policy.defined /\ policy.maxAge # NumberAge(0)) =>
                /\ StepHash \in DOMAIN storage'
                /\ storage'[StepHash].maxAge =
                      IF policy.maxAge.kind = "number" THEN policy.maxAge.n
                      ELSE CallMaxAge(policy.maxAge.f, last'.parameters)
                /\ storage'[StepHash].sliding = policy.sliding]_vars

\* C9 witness: after setCachePolicy([TestClass, "getData"], sliding 1) a call
\* of the decorated method wrote an entry with the override, not with the
\* declared getMaxAge.
C9_Witness ==
    /\ last.op = "call"
    /\ last.invoked
    /\ getHash(DefaultPolicyKey(TestClass, methodName)) \in DOMAIN policies
    /\ LastHash \in DOMAIN storage
    /\ storage[LastHash].maxAge = 1
    /\ storage[LastHash].sliding
    /\ getMaxAge(last.parameters) # 1

\* C10: setCachePolicy changes neither storage nor the Context Registry, so
\* every cached entry expires when it would have without the call.
C10_SetCachePolicyKeepsEntries ==
    [][(last'.op = "setCachePolicy" /\ steps' = steps + 1)
       => /\ storage' = storage
          /\ contexts' = contexts
          /\ \A h \in DOMAIN storage : \A time \in 0 .. MaxTime :
                expired(storage'[h], time) = expired(storage[h], time)]_vars

\* C10 witness: a policy was just registered under the policy key of an
\* entry that is cached with another maxAge.
C10_Witness ==
    /\ last.op = "setCachePolicy"
    /\ \E h \in DOMAIN storage :
          /\ storage[h].policyKey = last.key
          /\ storage[h].maxAge = 2
          /\ policies[getHash(last.key)].maxAge = NumberAge(1)

\* C11: clear() empties storage and the Context Registry and leaves the
\* Policy Registry as it is: afterwards has(K) is false for every K, a
\* wrapped call made next recomputes, and its write takes maxAge and sliding
\* from the policy that was registered before the clear.
C11_Clear ==
    [][/\ (last'.op = "clear" /\ steps' = steps + 1) =>
            /\ storage' = EmptyMap
            /\ contexts' = EmptyMap
            /\ policies' = policies
            /\ \A key \in Keys : ~has(storage', key, now')
       /\ (last.op = "clear" /\ last'.op = "call") =>
            /\ last'.invoked
            /\ LET keyHash == getHash(last'.options.policyKey)
               IN  (keyHash \in DOMAIN policies
                    /\ policies[keyHash].maxAge.kind = "number"
                    /\ policies[keyHash].maxAge.n > 0) =>
                        /\ StepHash \in DOMAIN storage'
                        /\ storage'[StepHash].maxAge = policies[keyHash].maxAge.n
                        /\ storage'[StepHash].sliding = policies[keyHash].sliding]_vars

\* C11 witness: clear() has just run as the third operation, after a policy
\* was registered and a wrapped call cached an entry with a context; the
\* policy is still registered.
C11_Witness ==
    /\ last.op = "clear"
    /\ steps = 3
    /\ nextRef = 2
    /\ storage = EmptyMap
    /\ contexts = EmptyMap
    /\ getHash(DefaultPolicyKey(TestClass, methodName)) \in DOMAIN policies
    /\ policies[getHash(DefaultPolicyKey(TestClass, methodName))].maxAge = NumberAge(2)

\* A step in which the wrapped getData missed, its target returned and the
\* result was handed to set().
WrappedWrite ==
    /\ last'.op = "wrapped"
    /\ steps' = steps + 1
    /\ last'.invoked
    /\ ~last'.threw

\* C12: a pending result written under no policy, or under a policy that
\* does not set keepRejectedPromise, gets a catch handler for its key; when
\* the handler has run after the rejection the key has no entry (has(K) is
\* false), and a call of the wrapped function made next invokes the target.
C12_RejectedIsEvicted ==
    [][/\ (/\ WrappedWrite
            /\ InstanceOfPromise(last'.value)
            /\ LET policy == ResolvePolicy(policies, last'.options)
               IN  ~policy.defined
                   \/ (~policy.keepRejectedPromise /\ ~SetReturnsEarly(policy)))
          => /\ [promise |-> last'.value, key |-> last'.key] \in reactions'
             /\ StepHash \in DOMAIN storage'
             /\ storage'[StepHash].value = last'.value
       /\ last'.op = "reaction" =>
             /\ promises[last'.value] = "rejected"
             /\ StepHash \notin DOMAIN storage'
             /\ ~has(storage', last'.key, now')
       /\ (last.op = "reaction" /\ last'.op = "wrapped" /\ last'.key = last.key)
          => last'.invoked]_vars

\* C12 witness: the handler of a rejected promise has just removed the entry
\* that held the promise, written under no policy.
C12_Witness ==
    /\ last.op = "reaction"
    /\ last.found
    /\ promises[last.value] = "rejected"
    /\ nextRef = 2
    /\ steps = 1
    /\ LastHash \notin DOMAIN storage
    /\ contexts = EmptyMap

\* The last operation wrote a promise under a resolved policy with
\* keepRejectedPromise = true.
KeptWrite ==
    /\ last.op = "wrapped"
    /\ last.invoked
    /\ ~last.threw
    /\ InstanceOfPromise(last.value)
    /\ LET policy == ResolvePolicy(policies, last.options)
       IN  policy.defined /\ policy.keepRejectedPromise /\ ~SetReturnsEarly(policy)

\* C13: an entry written under a resolved policy with keepRejectedPromise =
\* true is not removed by the outcome of a pending result: the steps in
\* which a promise settles or a rejection handler runs leave it cached, and
\* while it is unexpired the wrapped function returns its rejected promise
\* without invoking the target.
C13_KeptWhenRejected ==
    [][/\ (KeptWrite /\ last'.op \in {"reject", "resolve", "reaction"}) =>
             /\ LastHash \in DOMAIN storage'
             /\ storage'[LastHash].value = last.value
       /\ (/\ last'.op = "wrapped"
            /\ steps' = steps + 1
            /\ has(storage, last'.key, now)
            /\ InstanceOfPromise(storage[StepHash].value)
            /\ promises[storage[StepHash].value] = "rejected")
          => /\ ~last'.invoked
             /\ last'.value = storage[StepHash].value
             /\ StepHash \in DOMAIN storage'
             /\ storage'[StepHash].value = storage[StepHash].value]_vars

\* C14: with cached = cacheManager.wrap(getData, { keepRejectedPromise: true })
\* and getData returning a rejected promise, the first call invokes getData
\* and returns the rejected promise, and a call with the same arguments
\* made when no rejection handler is left to run returns that cached
\* promise without invoking getData.
C14_ReadmeKeepsRejected ==
    [][(/\ last'.op = "wrapped"
        /\ steps' = steps + 1
        /\ last'.options = ReadmeKeepOptions)
       => IF promises = EmptyMap
          THEN /\ last'.invoked
               /\ InstanceOfPromise(last'.value)
               /\ promises'[last'.value] = "rejected"
          ELSE reactions = {} =>
                  /\ ~last'.invoked
                  /\ last'.value \in DOMAIN promises
                  /\ promises' = promises]_vars

\* C15: a method decorated @cache({ maxAge: M }) returns the cached data when
\* it is called again within M of the first call, and invokes the method
\* again when it is called more than M after it.
C15_ReadmeMaxAge ==
    [][(/\ last'.op = "decorated"
        /\ steps' = steps + 1
        /\ StepHash \in DOMAIN storage)
       => IF now - storage[StepHash].created <= ReadmeMaxAge
          THEN ~last'.invoked /\ last'.value = storage[StepHash].value
          ELSE last'.invoked /\ last'.value # storage[StepHash].value]_vars

\* C16: the function wrap() returns gives back the cached value of an
\* unexpired entry without invoking the target; otherwise it invokes the
\* target once with the caller's parameters, writes what it returned under
\* the same key with the same options and parameters, and returns it. An
\* entry that never expires is therefore computed once.
C16_Wrap ==
    [][(last'.op = "wrapped" /\ steps' = steps + 1) =>
        IF has(storage, last'.key, now)
        THEN /\ ~last'.invoked
             /\ ~last'.threw
             /\ last'.value = storage[StepHash].value
             /\ nextRef' = nextRef
             /\ promises' = promises
             /\ StepHash \in DOMAIN storage'
             /\ storage'[StepHash].value = storage[StepHash].value
             /\ storage'[StepHash].created = storage[StepHash].created
        ELSE /\ last'.invoked
             /\ ~last'.threw =>
                  /\ nextRef' = nextRef + 1
                  /\ last'.value \in {nextRef, PromiseOf(nextRef)}
                  /\ last'.key = WrapKey(methodName, last'.parameters)
                  /\ LET options == last'.options
                         policy == ResolvePolicy(policies, options)
                     IN  ~SetReturnsEarly(policy) =>
                            /\ StepHash \in DOMAIN storage'
                            /\ storage'[StepHash].key = last'.key
                            /\ storage'[StepHash].value = last'.value
                            /\ storage'[StepHash].created = now
                            /\ storage'[StepHash].context =
                                  ResolveContext(options, last'.parameters)
                            /\ storage'[StepHash].maxAge =
                                  EvaluatedMaxAge(policies, options, last'.parameters)]_vars

\* C16 witness: the third call of the wrapped function, three clock units
\* after the first, returns the object the only target invocation returned,
\* from an entry without max age.
C16_Witness ==
    /\ last.op = "wrapped"
    /\ last.found
    /\ steps = 3
    /\ nextRef = 2
    /\ last.value = 1
    /\ LastHash \in DOMAIN storage
    /\ storage[LastHash].maxAge = UndefinedAge
    /\ now - storage[LastHash].created = 3

\* C17: while the promise cached for a key is pending and its entry is
\* neither removed nor expired, a call of the wrapped function with that
\* key returns the very same promise and does not invoke the target.
C17_OneComputationPerKey ==
    [][(/\ last'.op = "wrapped"
        /\ steps' = steps + 1
        /\ has(storage, last'.key, now)
        /\ InstanceOfPromise(storage[StepHash].value)
        /\ promises[storage[StepHash].value] = "pending")
       => /\ ~last'.invoked
          /\ last'.value = storage[StepHash].value
          /\ nextRef' = nextRef
          /\ promises' = promises
          /\ StepHash \in DOMAIN storage'
          /\ storage'[StepHash].value = storage[StepHash].value]_vars

\* C17 witness: two calls during the pending window of the first call's
\* promise got that promise; the target ran once.
C17_Witness ==
    /\ last.op = "wrapped"
    /\ last.found
    /\ steps = 3
    /\ nextRef = 2
    /\ InstanceOfPromise(last.value)
    /\ promises[last.value] = "pending"
    /\ LastHash \in DOMAIN storage
    /\ storage[LastHash].value = last.value

\* C18: remove(key) deletes the entry of key and nothing else from storage
\* and returns whether there was one; the hash leaves the set of the
\* entry's context, and that set, even when empty, stays registered.
\* Afterwards has(key) is false and a wrapped call with that key recomputes.
C18_Remove ==
    [][/\ (last'.op = "remove" /\ steps' = steps + 1) =>
            LET existed == StepHash \in DOMAIN storage
                context == IF existed THEN storage[StepHash].context ELSE Undefined
            IN  /\ last'.found = existed
                /\ ~last'.threw
                /\ storage' = [h \in DOMAIN storage \ {StepHash} |-> storage[h]]
                /\ ~has(storage', last'.key, now')
                /\ DOMAIN contexts' = DOMAIN contexts
                /\ \A c \in DOMAIN contexts :
                      contexts'[c] = IF c = context THEN contexts[c] \ {StepHash}
                                     ELSE contexts[c]
                /\ Truthy(context) => context \in DOMAIN contexts'
       /\ (last.op = "remove" /\ last'.op = "call" /\ last'.key = last.key)
          => last'.invoked]_vars

\* C18 witness: remove() has just returned true for the only entry of the
\* context "world"; the context's set is still registered, and empty.
C18_Witness ==
    /\ last.op = "remove"
    /\ last.found
    /\ ~last.threw
    /\ storage = EmptyMap
    /\ testContext \in DOMAIN contexts
    /\ contexts[testContext] = {}

\* C19: remove(K), get(K) and has(K) for a key without entry return false,
\* undefined and false, and removeContext(C) for a context that is not
\* registered does nothing: none throws, and storage, the Context Registry
\* and the Policy Registry are as before.
C19_UnknownTargets ==
    [][(/\ steps' = steps + 1
        /\ \/ last'.op \in {"remove", "get", "has"} /\ StepHash \notin DOMAIN storage
           \/ last'.op = "removeContext" /\ last'.context \notin DOMAIN contexts)
       => /\ ~last'.found
          /\ ~last'.threw
          /\ last'.value = UndefinedValue
          /\ storage' = storage
          /\ contexts' = contexts
          /\ policies' = policies]_vars

\* C19 witness: remove() has just returned false for a key without entry
\* while another key is cached under a registered context.
C19_Witness ==
    /\ last.op = "remove"
    /\ ~last.found
    /\ ~last.threw
    /\ LastHash \notin DOMAIN storage
    /\ steps = 2
    /\ storage # EmptyMap
    /\ \E c \in DOMAIN contexts : contexts[c] = DOMAIN storage

\* C20 as stated: when the target of a wrapped call throws, the call throws
\* and storage, the Context Registry and the Policy Registry are exactly as
\* before the call.
C20_ThrowLeavesCacheAsBefore ==
    [][(last'.op = "wrapped" /\ steps' = steps + 1 /\ last'.threw) =>
          /\ last'.invoked
          /\ storage' = storage
          /\ contexts' = contexts
          /\ policies' = policies
          /\ ~has(storage', last'.key, now')]_vars

\* C20, amended: when the target of a wrapped call throws, the call throws,
\* the Context Registry and the Policy Registry are exactly as before, and
\* storage is as before except that the lookup has evicted the key's
\* expired entry if there was one; no entry is cached for the key.
C20_ThrowCachesNothing ==
    [][(last'.op = "wrapped" /\ steps' = steps + 1 /\ last'.threw) =>
          /\ last'.invoked
          /\ ~last'.found
          /\ last'.value = UndefinedValue
          /\ ~has(storage, last'.key, now)
          /\ storage' = [h \in DOMAIN storage \ {StepHash} |-> storage[h]]
          /\ StepHash \in DOMAIN storage => expired(storage[StepHash], now)
          /\ contexts' = contexts
          /\ policies' = policies
          /\ nextRef' = nextRef
          /\ promises' = promises
          /\ reactions' = reactions
          /\ ~has(storage', last'.key, now')]_vars

\* C20 witness: the target has just thrown on a miss caused by an expired
\* entry; the entry is gone from storage and its hash is still listed under
\* its context, as before the call.
C20_Witness ==
    /\ last.op = "wrapped"
    /\ last.threw
    /\ last.invoked
    /\ nextRef = 2
    /\ steps = 2
    /\ LastHash \notin DOMAIN storage
    /\ testContext \in DOMAIN contexts
    /\ LastHash \in contexts[testContext]

\* ------------------------------------------- policyKey given as a function
\* Options whose policyKey is the function policyKeyByName, with and
\* without an inline policy.
PolicyKeyOptions ==
    {Options(UndefinedContext, FunctionKey("policyKeyByName"), UndefinedPolicy),
     Options(UndefinedContext, FunctionKey("policyKeyByName"),
             Policy(NumberAge(3), FALSE))}

\* Policies are registered under the keys policyKeyByName returns; values
\* are set under "k1" with the name as the write's parameters.
NextPolicyKey ==
    \/ \E name \in Names, policy \in InputPolicies :
          SetCachePolicy(policyKeyByName(<<name>>), policy)
    \/ \E value \in Values, options \in PolicyKeyOptions, name \in Names :
          Set(StringKey("k1"), value, options, <<name>>)
    \/ Get(StringKey("k1"))
    \/ Has(StringKey("k1"))
    \/ Tick

SpecPolicyKey == Init /\ [][NextPolicyKey]_vars

\* ------------------------------------------------ several wrapped targets
\* A function value: its identity and its `name` property.
Target(id, name) == [id |-> id, name |-> name]

\* Two functions that are both named getData, and one named getUser.
Targets == {Target(1, methodName), Target(2, methodName), Target(3, "getUser")}

\* The operation record of a call of wrap(target).
LastOf(target, key, value, parameters, found, invoked, threw) ==
    [target |-> target, op |-> "wrappedTarget", key |-> key, value |-> value,
     options |-> UndefinedOptions, parameters |-> parameters,
     context |-> Undefined, found |-> found, invoked |-> invoked,
     threw |-> threw]

\* cacheManager.wrap(target)(...parameters): no options, no getKey.
CallTarget(target, parameters) ==
    LET key == WrapKey(target.name, parameters)
        called == wrapped(storage, contexts, policies, Returns(nextRef),
                          UndefinedOptions, key, parameters, now)
    IN  /\ Step
        /\ storage' = called.storage
        /\ contexts' = called.contexts
        /\ nextRef' = IF called.invoked THEN nextRef + 1 ELSE nextRef
        /\ reactions' = Catch(reactions, called.catches, called.value, key)
        /\ last' = LastOf(target, key, called.value, parameters, ~called.invoked,
                          called.invoked, called.threw)
        /\ UNCHANGED <<policies, now, promises>>

NextTargets ==
    \/ \E target \in Targets, name \in Names : CallTarget(target, <<name>>)
    \/ \E target \in Targets, name \in Names :
          Remove(WrapKey(target.name, <<name>>))
    \/ Tick

SpecTargets == Init /\ [][NextTargets]_vars

\* ------------------------------------- rejections, contexts and removals
\* Options getData is wrapped with: a context, with and without a max age.
RejectionOptions ==
    {Options(StringContext(testContext), UndefinedKey, Policy(NumberAge(1), FALSE)),
     Options(StringContext(myContext), UndefinedKey, UndefinedPolicy)}

\* The wrapped getData returns promises, pending or already rejected, that
\* are cached under a context; promises are rejected and their handlers run
\* while entries are removed by key, by context or all at once.
NextRejection ==
    \/ \E options \in RejectionOptions, kind \in {"pending", "rejected"} :
          CallWrapped(options, <<testName>>, kind)
    \/ \E promise \in DOMAIN promises : Reject(promise)
    \/ \E reaction \in reactions : RunReaction(reaction)
    \/ \E key \in WrapKeys : Remove(key)
    \/ \E context \in Contexts : RemoveContext(context)
    \/ Clear
    \/ Tick

SpecRejection == Init /\ [][NextRejection]_vars

\* ------------------------------------------------ queries and removals
\* Keys of the entries that are set, queried and removed.
QueryKeys == {StringKey("k1"), StringKey("k2")}

\* Options of the writes: none, a context with a sliding policy, and a
\* policy key with a fixed inline policy.
QueryOptions ==
    {UndefinedOptions,
     Options(StringContext(testContext), UndefinedKey, Policy(NumberAge(1), TRUE)),
     Options(UndefinedContext, DefaultPolicyKey(TestClass, methodName),
             Policy(NumberAge(2), FALSE))}

\* Entries are set, probed with has(), read with get() and removed while
\* time passes; a sliding policy may be registered under the policy key.
NextQuery ==
    \/ \E key \in QueryKeys, value \in Values, options \in QueryOptions :
          Set(key, value, options, <<>>)
    \/ \E key \in QueryKeys : Get(key)
    \/ \E key \in QueryKeys : Has(key)
    \/ \E key \in QueryKeys : Remove(key)
    \/ SetCachePolicy(DefaultPolicyKey(TestClass, methodName),
                      Policy(NumberAge(1), TRUE))
    \/ Tick

SpecQuery == Init /\ [][NextQuery]_vars

\* This step and the one before are calls of the decorated method
\* `propertyName` with the same arguments.
SameCallTwice(propertyName) ==
    /\ last.op = propertyName
    /\ last'.op = propertyName
    /\ steps' = steps + 1
    /\ last'.parameters = last.parameters

\* C21: a call of the decorated getData on any instance hits the unexpired
\* entry cached for the same arguments, whichever instance cached it: a
\* call made on another instance right after one that returned a value
\* returns the same reference without invoking the method body.
C21_SharedByInstances ==
    [][/\ (/\ last'.op = "getData"
            /\ steps' = steps + 1
            /\ has(storage, DecoratorKey(TestClass, "getData", last'.parameters), now))
          => /\ ~last'.invoked
             /\ last'.value = storage[StepHash].value
             /\ nextRef' = nextRef
       /\ (/\ SameCallTwice("getData")
            /\ last'.receiver.id # last.receiver.id)
          => /\ ~last'.invoked
             /\ last'.value = last.value]_vars

\* C21 witness: the second operation is a call on `another` that returns the
\* reference of the only invocation so far.
C21_Witness ==
    /\ last.op = "getData"
    /\ last.receiver = another
    /\ last.found
    /\ last.value = 1
    /\ steps = 2
    /\ nextRef = 2

\* C22: with an extraKeyParts function that returns this.source, a call of
\* the decorated method on an instance made right after the same call on
\* an instance with another source has its own key, invokes the method
\* and returns its own value; repeated on the same instance it returns the
\* instance's cached value.
C22_ExtraKeyParts ==
    [][SameCallTwice("useExtraKeyParts") =>
          IF last'.receiver.source # last.receiver.source
          THEN /\ last'.key # last.key
               /\ last'.invoked
               /\ last'.value # last.value
          ELSE /\ ~last'.invoked
               /\ last'.value = last.value]_vars

\* C24: a call of getData2, decorated with the context function
\* getThisContext, that invokes the method on the instance r returns and
\* leaves an entry tagged with r.source; removeContext(r.source) leaves no
\* entry with that context.
C24_ContextFromThis ==
    [][/\ (/\ last'.op = "getData2"
            /\ steps' = steps + 1
            /\ last'.invoked)
          => /\ ~last'.threw
             /\ StepHash \in DOMAIN storage'
             /\ storage'[StepHash].context = last'.receiver.source
       /\ (last'.op = "removeContext" /\ steps' = steps + 1)
          => \A h \in DOMAIN storage' : storage'[h].context # last'.context]_vars

\* A step of an operation on one key of the wrapped function: a call, a
\* read, a removal, or the run of a rejection handler.
KeyedWrapStep ==
    \/ steps' = steps + 1 /\ last'.op \in {"wrapped", "get", "has", "remove"}
    \/ last'.op = "reaction" /\ reactions' # reactions

\* C23: calls of one wrapped function with different argument tuples have
\* different hashes, the second call invokes the target when its own key
\* holds nothing, and no operation on one key (a call, a read that evicts
\* an expired entry, a removal, a rejection handler) changes the entry of
\* another key.
C23_DistinctArguments ==
    [][/\ (/\ last.op = "wrapped"
            /\ last'.op = "wrapped"
            /\ steps' = steps + 1
            /\ last'.parameters # last.parameters)
          => /\ StepHash # LastHash
             /\ StepHash \notin DOMAIN storage => last'.invoked
       /\ KeyedWrapStep
          => \A h \in DOMAIN storage :
                h # StepHash => h \in DOMAIN storage' /\ storage'[h] = storage[h]]_vars

\* C23 witness: after calls with both names, remove() of the first name's
\* key found its entry and the second name's entry is still stored.
C23_Witness ==
    /\ last.op = "remove"
    /\ last.found
    /\ steps = 3
    /\ getHash(WrapKey(methodName, <<testName>>)) \notin DOMAIN storage
    /\ getHash(WrapKey(methodName, <<anotherName>>)) \in DOMAIN storage

\* C25: an expired entry is evicted lazily. Passing time and has() leave
\* storage as it is; a get() or a wrapped call that finds the entry of its
\* key expired misses (get returns undefined, the call invokes the target)
\* and storage no longer holds that entry afterwards; entries of other
\* keys, expired or not, stay.
C25_LazyEviction ==
    [][/\ (last'.op = "tick" /\ now' = now + 1) => storage' = storage
       /\ (last'.op = "has" /\ steps' = steps + 1) => storage' = storage
       /\ (/\ ReadStep
            /\ StepHash \in DOMAIN storage
            /\ expired(storage[StepHash], now))
          => /\ ~last'.found
             /\ last'.op = "get" =>
                   (last'.value = UndefinedValue /\ StepHash \notin DOMAIN storage')
             /\ last'.op = "call" =>
                   /\ last'.invoked
                   /\ StepHash \in DOMAIN storage' =>
                         /\ storage'[StepHash].value = last'.value
                         /\ storage'[StepHash].value # storage[StepHash].value
                         /\ storage'[StepHash].created = now
             /\ \A h \in DOMAIN storage :
                   h # StepHash => h \in DOMAIN storage' /\ storage'[h] = storage[h]]_vars

\* C25 witness: get() missed on a key whose entry, written by a wrapped
\* call under the context "world", had expired: the entry has left
\* storage and its hash is still listed under the context.
C25_Witness ==
    /\ last.op = "get"
    /\ ~last.found
    /\ LastHash \notin DOMAIN storage
    /\ testContext \in DOMAIN contexts
    /\ LastHash \in contexts[testContext]
    /\ now >= 3

\* C26: a get() or wrapped call that hits changes the `accessed` field of
\* its key's entry to the current time and nothing else: no other field, no
\* other entry, neither registry. A get() of a key that is not stored
\* changes nothing.
C26_HitFrame ==
    [][/\ (ReadStep /\ last'.found)
          => /\ storage' = [storage EXCEPT ![StepHash].accessed = now]
             /\ UNCHANGED <<contexts, policies, now, nextRef, promises, reactions>>
       /\ (/\ last'.op = "get"
            /\ steps' = steps + 1
            /\ StepHash \notin DOMAIN storage)
          => /\ ~last'.found
             /\ UNCHANGED <<storage, contexts, policies, now, nextRef, promises,
                            reactions>>]_vars

\* C26 witness: get() hit an entry created earlier; its `accessed` is the
\* current time and its `created` is not.
C26_Witness ==
    /\ last.op = "get"
    /\ last.found
    /\ LastHash \in DOMAIN storage
    /\ storage[LastHash].accessed = now
    /\ storage[LastHash].created < now

\* C27: a set() whose options give policyKey as a function of the
\* parameters applies the policy registered under the key the function
\* returns for the write's parameters: nothing is stored when that policy's
\* maxAge is 0, otherwise the entry carries its maxAge and sliding.
C27_PolicyKeyFunction ==
    [][(/\ last'.op = "set"
        /\ steps' = steps + 1
        /\ last'.options.policyKey.type = "function"
        /\ getHash(ResolvePolicyKey(last'.options, last'.parameters))
              \in DOMAIN policies)
       => LET policy == policies[getHash(ResolvePolicyKey(last'.options,
                                                           last'.parameters))]
          IN  IF policy.maxAge = NumberAge(0)
              THEN storage' = storage
              ELSE /\ StepHash \in DOMAIN storage'
                   /\ storage'[StepHash].maxAge = policy.maxAge.n
                   /\ storage'[StepHash].sliding = policy.sliding]_vars

\* C28: wrapped without getKey, two distinct functions never share an
\* entry: a call of wrap(g) made right after the call of wrap(f) with the
\* same arguments, f and g distinct, invokes g and returns g's result.
C28_DistinctTargets ==
    [][(/\ last.op = "wrappedTarget"
        /\ last'.op = "wrappedTarget"
        /\ steps' = steps + 1
        /\ last'.target.id # last.target.id
        /\ last'.parameters = last.parameters)
       => /\ last'.invoked
          /\ last'.value # last.value]_vars

\* C29: every stored entry that carries a context has its hash listed in
\* the Context Registry under that context, so no remove(), called
\* directly or by a rejection handler, finds the context's set missing
\* and raises.
C29_ContextRegistered ==
    /\ \A h \in DOMAIN storage :
          storage[h].context # Undefined =>
             /\ storage[h].context \in DOMAIN contexts
             /\ h \in contexts[storage[h].context]
    /\ last.op \in {"remove", "reaction"} => ~last.threw

\* C29 witness: a rejection handler removed an entry cached under "world":
\* the set of "world" exists and no longer lists the hash.
C29_Witness ==
    /\ last.op = "reaction"
    /\ last.found
    /\ LastHash \notin DOMAIN storage
    /\ testContext \in DOMAIN contexts
    /\ LastHash \notin contexts[testContext]

\* C30: the handler of a rejected promise evicts the entry that holds that
\* promise and no other: when the key's entry is gone or holds a newer
\* value, the handler leaves the storage and the Context Registry as they
\* are.
C30_RejectionEvictsOwnEntry ==
    [][(last'.op = "reaction" /\ reactions' # reactions) =>
          IF StepHash \in DOMAIN storage /\ storage[StepHash].value = last'.value
          THEN StepHash \notin DOMAIN storage'
          ELSE storage' = storage /\ contexts' = contexts]_vars

\* C31: has() is a pure query. Storage, the Context Registry and the Policy
\* Registry are the same after it as before: no entry has its `accessed`
\* refreshed, so no entry expires later than it would have without the
\* probe, and no expired entry is evicted.
C31_HasIsPure ==
    [][(last'.op = "has" /\ steps' = steps + 1)
       => /\ UNCHANGED <<storage, contexts, policies>>
          /\ \A h \in DOMAIN storage :
                /\ h \in DOMAIN storage'
                /\ storage'[h].accessed = storage[h].accessed
                /\ \A time \in now .. MaxTime + MaxAge :
                      expired(storage'[h], time) = expired(storage[h], time)]_vars

\* C31 witness: has() found a sliding entry that was last accessed before
\* the current time.
C31_Witness ==
    /\ last.op = "has"
    /\ last.found
    /\ LastHash \in DOMAIN storage
    /\ storage[LastHash].sliding
    /\ storage[LastHash].accessed < now

\* C32: has and the read path agree. In every state a step leads to, has(K)
\* is true exactly when getCacheItem(K) at the same time would return an
\* entry, and what a get() found is what has() of its key was before it.
C32_HasAgreesWithRead ==
    [][/\ \A key \in QueryKeys :
             has(storage', key, now') = getCacheItem(storage', key, now').found
       /\ (last'.op = "get" /\ steps' = steps + 1)
          => last'.found = has(storage, last'.key, now)]_vars

\* C32 witness: has() reported false for an entry that is still stored,
\* expired and not yet evicted.
C32_Witness ==
    /\ last.op = "has"
    /\ ~last.found
    /\ LastHash \in DOMAIN storage
    /\ expired(storage[LastHash], now)

\* C33: remove(K) returns true exactly when has(K) was true immediately
\* before the call; removing an expired entry that was not yet evicted
\* reports false.
C33_RemoveAgreesWithHas ==
    [][(last'.op = "remove" /\ steps' = steps + 1)
       => last'.found = has(storage, last'.key, now)]_vars

\* C33 amended: remove(K) returns true exactly when storage held an entry
\* under the hash of K immediately before the call, expired or not, and
\* the entry is gone afterwards; so remove(K) returns true whenever has(K)
\* was true, and false when nothing was stored.
C33_RemoveReportsStored ==
    [][(last'.op = "remove" /\ steps' = steps + 1)
       => /\ last'.found = (StepHash \in DOMAIN storage)
          /\ has(storage, last'.key, now) => last'.found
          /\ StepHash \notin DOMAIN storage']_vars

\* C33 witness: remove() returned true for an entry written under the
\* context "world": the entry has left storage and the context's set, which
\* still exists, no longer lists its hash.
C33_Witness ==
    /\ last.op = "remove"
    /\ last.found
    /\ LastHash \notin DOMAIN storage
    /\ testContext \in DOMAIN contexts
    /\ contexts[testContext] = {}
    /\ now > 0

====
